---- MODULE Spec2Model ----
(***************************************************************************)
(* Model of client.go: a persistent-connection ISO 8583 client.  Callers   *)
(* run Send, one goroutine runs writeLoop, one runs readLoop, the user may *)
(* call Close.  The peer and the transport are the environment.            *)
(***************************************************************************)
EXTENDS Integers, Sequences, FiniteSets, TLC

\* ---------------------------------------------------------------- bounds
\* number of Send calls (each caller goroutine makes one call)
NumCallers == 2

\* ------------------------------------------------------ program constants
\* client.go:253, the largest STAN
MaxStan == 999999
\* client.go:256, the width of "%06d"
StanWidth == 6

Callers == 1..NumCallers

VARIABLES
    closing,     \* Client.closing
    stan,        \* Client.stan
    respMap,     \* Client.respMap: key -> reply channel (named by its caller)
    connClosed,  \* Client.conn has been closed locally
    crashed,     \* the runtime has thrown on a concurrent map access
    sendPc,      \* position of each Send call
    given,       \* field 11 of the message as the caller passed it
    msg,         \* field 11 of the caller's message now
    reqs,        \* the request each Send built (rawMessage, requestID)
    resp,        \* the reply each Send returns
    err,         \* the error each Send returns
    wrPc,        \* position of writeLoop
    wrReq,       \* the request writeLoop holds (its caller), 0 when none
    rdPc,        \* position of readLoop
    rdMsg,       \* the message readLoop decoded
    rdCh,        \* the reply channel readLoop found (its caller), 0 when none
    closePc,     \* position of the user's current Close call
    closeRes,    \* what the last finished Close call returned, "none" before
    inbound,     \* the head of the inbound stream: the frame readLoop reads next
    written,     \* what conn.Write accepted
    published,   \* requests handed to writeLoop over requestsCh
    registered,  \* requests writeLoop has put into respMap
    handoffs,    \* per request, which of its channels completed a handoff
    issued,      \* the values getSTAN returned, in order
    afterClose   \* Send calls that began after a Close call had returned

vars == <<closing, stan, respMap, connClosed, crashed, sendPc, given, msg, reqs,
          resp, err, wrPc, wrReq, rdPc, rdMsg, rdCh, closePc, closeRes, inbound,
          written, published, registered, handoffs, issued, afterClose>>

\* ------------------------------------------------------------- values
Empty == <<>>
NoMsg == [ok |-> FALSE, key |-> Empty]
NoReq == [rawMessage |-> Empty, requestID |-> Empty]
EmptyMap == [k \in {} |-> 0]

\* c.stan++ on an int32 that the wrap keeps within 0..MaxStan: no overflow
Incr(n) == n + 1

\* decimal digits of a non-negative number, most significant first
RECURSIVE Digits(_)
Digits(n) == IF n < 10 THEN <<n>> ELSE Append(Digits(n \div 10), n % 10)

\* left padding with zeros up to width w
RECURSIVE ZeroPad(_, _)
ZeroPad(s, w) == IF Len(s) >= w THEN s ELSE ZeroPad(<<0>> \o s, w)

\* fmt.Sprintf("%06d", n) for n >= 0
Sprintf06(n) == ZeroPad(Digits(n), StanWidth)

\* getSTAN: the counter after c.stan++ and the wrap
\* (getSTANSkips: the wrap tested with >=, which never issues 999999)
getSTANSkips(s) == IF Incr(s) >= MaxStan THEN 0 ELSE Incr(s)
getSTAN(s) == IF Incr(s) > MaxStan THEN 0 ELSE Incr(s)

\* setMessageSTAN: a STAN is generated when field 11 is empty
\* (NeedsSTANAlways: the test left out)
NeedsSTANAlways(f) == TRUE
NeedsSTAN(f) == f = Empty

\* requestID: field 11 of the message
\* (requestIDFixed: a key that ignores the message)
requestIDFixed(f) == <<0, 0, 0, 0, 0, 1>>
requestID(f) == f

\* Send's first test, under the mutex
\* (SendRejectsNever: the test left out)
SendRejectsNever(cl) == FALSE
SendRejects(cl) == cl

\* c.respMap[key] = ch
MapInsert(m, k, ch) == [x \in (DOMAIN m) \cup {k} |-> IF x = k THEN ch ELSE m[x]]

\* replyCh, found := c.respMap[key]
\* (MapGetAny: some entry of the table, whatever the key)
MapFound(m, k) == k \in DOMAIN m
MapGetAny(m, k) == m[CHOOSE x \in DOMAIN m : TRUE]
MapGet(m, k) == m[k]

\* delete(c.respMap, key)
MapDelete(m, k) == [x \in (DOMAIN m) \ {k} |-> m[x]]

\* Close: c.closing = true
\* (ClosingToggled: the flag flipped instead of set)
ClosingToggled(cl) == ~cl
ClosingSet(cl) == TRUE

\* conn.Close(): nil the first time, the transport's error afterwards
\* (ConnCloseAlwaysNil: no error on a closed transport)
ConnCloseAlwaysNil(closed) == "nil"
ConnCloseResult(closed) == IF closed THEN "ErrNetClosed" ELSE "nil"

\* the keys callers and the peer use
CallerFields == {Empty, Sprintf06(1)}
PeerKeys == {Sprintf06(1), Sprintf06(2)}

\* ---------------------------------------------------------------- Init
InitAt(s) ==
    /\ closing = FALSE
    /\ stan = s
    /\ respMap = EmptyMap
    /\ connClosed = FALSE
    /\ crashed = FALSE
    /\ sendPc = [c \in Callers |-> "idle"]
    /\ given = [c \in Callers |-> Empty]
    /\ msg = [c \in Callers |-> Empty]
    /\ reqs = [c \in Callers |-> NoReq]
    /\ resp = [c \in Callers |-> NoMsg]
    /\ err = [c \in Callers |-> "nil"]
    /\ wrPc = "recv"
    /\ wrReq = 0
    /\ rdPc = "read"
    /\ rdMsg = NoMsg
    /\ rdCh = 0
    /\ closePc = "idle"
    /\ closeRes = "none"
    /\ inbound = <<>>
    /\ written = {}
    /\ published = {}
    /\ registered = {}
    /\ handoffs = [c \in Callers |-> {}]
    /\ issued = <<>>
    /\ afterClose = {}

\* NewClient followed by a successful Connect
Init == InitAt(0)

\* ------------------------------------------------------------- Send
\* Send is called with a message whose field 11 is f; the closing test
SendStart(c, f) ==
    /\ ~crashed
    /\ sendPc[c] = "idle"
    /\ given' = [given EXCEPT ![c] = f]
    /\ msg' = [msg EXCEPT ![c] = f]
    /\ afterClose' = IF closeRes # "none" THEN afterClose \cup {c} ELSE afterClose
    /\ IF SendRejects(closing)
         THEN /\ sendPc' = [sendPc EXCEPT ![c] = "done"]
              /\ err' = [err EXCEPT ![c] = "ErrConnectionClosed"]
         ELSE /\ sendPc' = [sendPc EXCEPT ![c] = "prep"]
              /\ err' = err
    /\ UNCHANGED <<closing, stan, respMap, connClosed, crashed, reqs, resp, wrPc,
                   wrReq, rdPc, rdMsg, rdCh, closePc, closeRes, inbound, written, published, handoffs, issued, registered>>

\* setMessageSTAN, Pack, the header and the request; callers pass messages
\* the codec packs, so the error returns of lines 77-105 are not taken
SendPrepare(c) ==
    /\ ~crashed
    /\ sendPc[c] = "prep"
    /\ LET gen == NeedsSTAN(msg[c])
           s2 == IF gen THEN getSTAN(stan) ELSE stan
           f2 == IF gen THEN Sprintf06(s2) ELSE msg[c]
       IN /\ stan' = s2
          /\ msg' = [msg EXCEPT ![c] = f2]
          /\ issued' = IF gen THEN Append(issued, f2) ELSE issued
          /\ reqs' = [reqs EXCEPT ![c] =
                        [rawMessage |-> f2, requestID |-> requestID(f2)]]
          /\ sendPc' = [sendPc EXCEPT ![c] = "publish"]
    /\ UNCHANGED <<err, closing, respMap, connClosed, crashed, given, resp, wrPc, wrReq,
                   rdPc, rdMsg, rdCh, closePc, closeRes, inbound, written,
                   published, handoffs, afterClose, registered>>

\* whether a Send call is receiving in its select
\* (SelectReadyAlways: a receive that also completes after Send returned)
SelectReadyAlways(pc) == pc \in {"wait", "done"}
SelectReady(pc) == pc = "wait"

\* ---------------------------------------------------------- writeLoop
\* what writeLoop does first with a request it received: the map insert
\* (WriterFirstWrites: the write, with no registration before it)
WriterFirstWrites == "write"
WriterFirst == "insert"

\* c.requestsCh <- req meets for req := range c.requestsCh
WriterRecv(c) ==
    /\ ~crashed
    /\ wrPc = "recv"
    /\ sendPc[c] = "publish"
    /\ wrReq' = c
    /\ wrPc' = WriterFirst
    /\ sendPc' = [sendPc EXCEPT ![c] = "wait"]
    /\ published' = published \cup {c}
    /\ UNCHANGED <<closing, stan, respMap, connClosed, crashed, given, msg, reqs,
                   resp, err, rdPc, rdMsg, rdCh, closePc, closeRes, inbound,
                   written, handoffs, issued, afterClose, registered>>

\* c.respMap[req.requestID] = req.replyCh
WriterInsert ==
    /\ ~crashed
    /\ wrPc = "insert"
    /\ respMap' = MapInsert(respMap, reqs[wrReq].requestID, wrReq)
    /\ registered' = registered \cup {wrReq}
    /\ wrPc' = "write"
    /\ UNCHANGED <<closing, stan, connClosed, crashed, sendPc, given, msg, reqs,
                   resp, err, wrReq, rdPc, rdMsg, rdCh, closePc, closeRes, inbound,
                   written, published, handoffs, issued, afterClose>>

\* c.conn.Write(req.rawMessage)
WriterWrite(ok) ==
    /\ ~crashed
    /\ wrPc = "write"
    /\ connClosed => ~ok
    /\ IF ok
         THEN /\ written' = written \cup {[req |-> wrReq, raw |-> reqs[wrReq].rawMessage]}
              /\ wrPc' = "recv"
              /\ wrReq' = 0
         ELSE /\ written' = written
              /\ wrPc' = "sendErr"
              /\ wrReq' = wrReq
    /\ UNCHANGED <<closing, stan, respMap, connClosed, crashed, sendPc, given, msg,
                   reqs, resp, err, rdPc, rdMsg, rdCh, closePc, closeRes, inbound,
                   published, handoffs, issued, afterClose, registered>>

\* req.errCh <- err meets case err = <-req.errCh
WriterSendErr(c) ==
    /\ ~crashed
    /\ wrPc = "sendErr"
    /\ wrReq = c
    /\ SelectReady(sendPc[c])
    /\ err' = [err EXCEPT ![c] = "WriteErr"]
    /\ handoffs' = [handoffs EXCEPT ![c] = @ \cup {"err"}]
    /\ sendPc' = [sendPc EXCEPT ![c] = "done"]
    /\ wrPc' = "recv"
    /\ wrReq' = 0
    /\ UNCHANGED <<closing, stan, respMap, connClosed, crashed, given, msg, reqs,
                   resp, rdPc, rdMsg, rdCh, closePc, closeRes, inbound, written, published, issued, afterClose, registered>>

\* ----------------------------------------------------------- readLoop
\* header.ReadFrom, io.ReadFull, Unpack, requestID on the next frame; a frame
\* that fails to decode breaks the loop, and the code after the loop (lock,
\* the stderr line, unlock) delivers nothing and returns
ReaderReadFrame ==
    /\ ~crashed
    /\ rdPc = "read"
    /\ inbound # <<>>
    /\ inbound' = Tail(inbound)
    /\ IF Head(inbound).ok
         THEN /\ rdMsg' = Head(inbound)
              /\ rdPc' = "lookup"
         ELSE /\ rdMsg' = rdMsg
              /\ rdPc' = "done"
    /\ UNCHANGED <<closing, stan, respMap, connClosed, crashed, sendPc, given, msg,
                   reqs, resp, err, wrPc, wrReq, rdCh, closePc, closeRes, written, published, handoffs, issued, afterClose, registered>>

\* header.ReadFrom fails on the closed transport: break, then the code after
\* the loop
ReaderReadErr ==
    /\ ~crashed
    /\ rdPc = "read"
    /\ connClosed
    /\ rdPc' = "done"
    /\ UNCHANGED <<closing, stan, respMap, connClosed, crashed, sendPc, given, msg,
                   reqs, resp, err, wrPc, wrReq, rdMsg, rdCh, closePc, closeRes,
                   inbound, written, published, handoffs, issued,
                   afterClose, registered>>

\* where readLoop goes when no entry is found: the else branch is empty
\* and the loop reads the next frame
\* (UnmatchedStops: the loop ends on an unmatched message)
UnmatchedStops == "done"
UnmatchedGoesTo == "read"

\* replyCh, found := c.respMap[reqID]
ReaderLookup ==
    /\ ~crashed
    /\ rdPc = "lookup"
    /\ IF MapFound(respMap, requestID(rdMsg.key))
         THEN /\ rdCh' = MapGet(respMap, requestID(rdMsg.key))
              /\ rdPc' = "deliver"
              /\ rdMsg' = rdMsg
         ELSE /\ rdCh' = 0
              /\ rdPc' = UnmatchedGoesTo
              /\ rdMsg' = NoMsg
    /\ UNCHANGED <<closing, stan, respMap, connClosed, crashed, sendPc, given, msg,
                   reqs, resp, err, wrPc, wrReq, closePc, closeRes, inbound,
                   written, published, handoffs, issued, afterClose, registered>>

\* replyCh <- message meets case resp = <-req.replyCh
ReaderDeliver(c) ==
    /\ ~crashed
    /\ rdPc = "deliver"
    /\ rdCh = c
    /\ SelectReady(sendPc[c])
    /\ resp' = [resp EXCEPT ![c] = rdMsg]
    /\ handoffs' = [handoffs EXCEPT ![c] = @ \cup {"reply"}]
    /\ sendPc' = [sendPc EXCEPT ![c] = "done"]
    /\ rdPc' = "delete"
    /\ UNCHANGED <<closing, stan, respMap, connClosed, crashed, given, msg, reqs,
                   err, wrPc, wrReq, rdMsg, rdCh, closePc, closeRes, inbound,
                   written, published, issued, afterClose, registered>>

\* delete(c.respMap, reqID)
ReaderDelete ==
    /\ ~crashed
    /\ rdPc = "delete"
    /\ respMap' = MapDelete(respMap, requestID(rdMsg.key))
    /\ rdPc' = "read"
    /\ rdMsg' = NoMsg
    /\ rdCh' = 0
    /\ UNCHANGED <<closing, stan, connClosed, crashed, sendPc, given, msg, reqs,
                   resp, err, wrPc, wrReq, closePc, closeRes, inbound, written, published, handoffs, issued, afterClose, registered>>

\* writeLoop's map write and readLoop's map read or delete overlap
MapRace == wrPc = "insert" /\ rdPc \in {"lookup", "delete"}

\* the runtime detects the concurrent map access and throws
MapFault ==
    /\ ~crashed
    /\ MapRace
    /\ crashed' = TRUE
    /\ UNCHANGED <<closing, stan, respMap, connClosed, sendPc, given, msg, reqs,
                   resp, err, wrPc, wrReq, rdPc, rdMsg, rdCh, closePc, closeRes,
                   inbound, written, published, handoffs, issued,
                   afterClose, registered>>

\* -------------------------------------------------------------- Close
\* c.mutex.Lock(); c.closing = true; c.mutex.Unlock()
CloseLock ==
    /\ ~crashed
    /\ closePc = "idle"
    /\ closing' = ClosingSet(closing)
    /\ closePc' = "conn"
    /\ UNCHANGED <<stan, respMap, connClosed, crashed, sendPc, given, msg, reqs,
                   resp, err, wrPc, wrReq, rdPc, rdMsg, rdCh, closeRes, inbound,
                   written, published, handoffs, issued, afterClose, registered>>

\* return c.conn.Close()
CloseConn ==
    /\ ~crashed
    /\ closePc = "conn"
    /\ closeRes' = ConnCloseResult(connClosed)
    /\ connClosed' = TRUE
    /\ closePc' = "idle"
    /\ UNCHANGED <<closing, stan, respMap, crashed, sendPc, given, msg, reqs, resp,
                   err, wrPc, wrReq, rdPc, rdMsg, rdCh, inbound, written,
                   published, handoffs, issued, afterClose, registered>>

\* --------------------------------------------------------------- peer
\* the peer's next frame reaches the transport: a message with key k, or
\* (good = FALSE) a frame that fails to decode
PeerSend(k, good) ==
    /\ ~crashed
    /\ ~connClosed
    /\ inbound = <<>>
    /\ inbound' = Append(inbound, [ok |-> good, key |-> IF good THEN k ELSE Empty])
    /\ UNCHANGED <<closing, stan, respMap, connClosed, crashed, sendPc, given, msg,
                   reqs, resp, err, wrPc, wrReq, rdPc, rdMsg, rdCh, closePc,
                   closeRes, written, published, handoffs, issued, afterClose, registered>>

\* --------------------------------------------------------------- Next
CallerStep(c) ==
    \/ \E f \in CallerFields : SendStart(c, f)
    \/ SendPrepare(c)

WriterStep ==
    \/ \E c \in Callers : WriterRecv(c)
    \/ WriterInsert
    \/ \E ok \in BOOLEAN : WriterWrite(ok)
    \/ \E c \in Callers : WriterSendErr(c)

ReaderStep ==
    \/ ReaderReadFrame
    \/ ReaderReadErr
    \/ ReaderLookup
    \/ \E c \in Callers : ReaderDeliver(c)
    \/ ReaderDelete

CloseStep == CloseLock \/ CloseConn

PeerStep ==
    \/ \E k \in PeerKeys : PeerSend(k, TRUE)
    \/ PeerSend(Empty, FALSE)

Next ==
    \/ \E c \in Callers : CallerStep(c)
    \/ WriterStep
    \/ ReaderStep
    \/ MapFault
    \/ CloseStep
    \/ PeerStep

Spec == Init /\ [][Next]_vars

\* counters the generator can hold when a run begins: fresh, and about to wrap
StanStarts == {0, MaxStan - 1, MaxStan}

\* The sequence generator under concurrent callers, from any of StanStarts;
\* Close takes the same mutex as getSTAN and Send's test
StanInit == \E s \in StanStarts : InitAt(s)
StanStep == (\E c \in Callers : CallerStep(c)) \/ CloseStep
StanSpec == StanInit /\ [][StanStep]_vars

\* The scheduler runs every goroutine that can take a step: writeLoop,
\* readLoop, each caller inside Send, a Close call in progress.  The peer,
\* the user's decisions to call Send or Close and the map fault are not forced.
FairSpec ==
    /\ Spec
    /\ WF_vars(WriterStep)
    /\ WF_vars(ReaderStep)
    /\ \A c \in Callers : WF_vars(SendPrepare(c))
    /\ WF_vars(CloseConn)

\* ------------------------------------------------------------- claims
InSend(c) == sendPc[c] \in {"prep", "publish", "wait"}
Returned(c) == sendPc[c] = "done"
HasReply(c) == resp[c] # NoMsg
KeySet(c) == reqs[c] # NoReq

\* C1: every Send call that has been invoked eventually returns (with a reply
\* or an error), under fair scheduling, whatever the peer and Close do.  A run
\* the runtime aborts is not counted as a hang.
SendEventuallyReturns == \A c \in Callers : InSend(c) ~> (Returned(c) \/ crashed)

\* C2: a Send call that is pending (published, no reply and no error yet) once
\* Close has set the closing flag eventually returns, with an error
\* (ErrConnectionClosed, or the write error of a request not yet written) or
\* with its reply.  A run the runtime aborts is not counted as a hang.
PendingSendUnblockedByClose ==
    \A c \in Callers :
        (closing /\ sendPc[c] = "wait")
            ~> \/ Returned(c) /\ (err[c] # "nil" \/ HasReply(c))
               \/ crashed

\* C3: a Send call that began after a Close call had returned has returned
\* ErrConnectionClosed at once, without a reply, and has published no request:
\* nothing of it was written and no table entry names it.
SendAfterCloseFailsFast ==
    \A c \in afterClose :
        /\ Returned(c)
        /\ err[c] = "ErrConnectionClosed"
        /\ ~HasReply(c)
        /\ c \notin published
        /\ ~KeySet(c)
        /\ \A w \in written : w.req # c
        /\ \A k \in DOMAIN respMap : respMap[k] # c
        /\ wrReq # c /\ rdCh # c

\* C3 witness: a call began after Close returned and was rejected, while an
\* earlier call had been published.
SendAfterCloseWitness ==
    \E c \in afterClose, d \in published :
        Returned(c) /\ err[c] = "ErrConnectionClosed"

\* all requests built so far carry pairwise distinct correlation keys
DistinctKeys ==
    \A c, d \in Callers :
        (c # d /\ KeySet(c) /\ KeySet(d)) => reqs[c].requestID # reqs[d].requestID

\* C4: when the Send calls carry pairwise distinct keys, every caller that
\* holds a reply holds one whose key is the key of its own request, and no
\* other caller holds a reply with that key.
DistinctKeysRepliesMatch ==
    DistinctKeys =>
        \A c \in Callers :
            HasReply(c) =>
                /\ resp[c].key = reqs[c].requestID
                /\ \A d \in Callers \ {c} : HasReply(d) => resp[d].key # resp[c].key

\* C4 witness: two concurrent calls with distinct keys both hold their replies.
DistinctKeysWitness ==
    /\ DistinctKeys
    /\ \E c, d \in Callers :
          /\ c # d /\ HasReply(c) /\ HasReply(d)
          /\ c \in published /\ d \in published

\* C5: a reply returned for a request sent with a caller-supplied key carries
\* that key, also when several outstanding requests share it.
ExplicitKeyReplyMatches ==
    \A c \in Callers :
        (given[c] # Empty /\ HasReply(c)) => resp[c].key = given[c]

\* C5 witness: two requests share a caller-supplied key, both were
\* published, and one of them holds a reply.
ExplicitKeyWitness ==
    \E c, d \in Callers :
        /\ c # d /\ given[c] # Empty /\ given[d] = given[c]
        /\ c \in published /\ d \in published
        /\ HasReply(c)

\* C6: registering a request never replaces the reply destination of an entry
\* already pending under the same key.
PendingEntryNotOverwritten ==
    [][\A k \in DOMAIN respMap :
          k \in DOMAIN respMap' => respMap'[k] = respMap[k]]_vars

\* C7: no Send call returns both a reply and an error, and the reply handoff
\* and the error handoff of one request never both complete.
ReplyXorError ==
    \A c \in Callers :
        /\ ~(HasReply(c) /\ err[c] # "nil")
        /\ handoffs[c] # {"reply", "err"}

\* C7 witness: the write of a request failed and a message with its key
\* arrived; the caller took the reply and writeLoop still offers the error.
ReplyXorErrorWitness ==
    \E c \in Callers :
        /\ Returned(c) /\ HasReply(c)
        /\ wrPc = "sendErr" /\ wrReq = c

\* "%06d" of n in 0..999999, digit by digit
SixDigits(n) == [i \in 1..StanWidth |-> (n \div (10 ^ (StanWidth - i))) % 10]

\* the number a digit string denotes
RECURSIVE ToNum(_)
ToNum(d) == IF d = <<>> THEN 0 ELSE 10 * ToNum(SubSeq(d, 1, Len(d) - 1)) + d[Len(d)]

\* C8: the counter stays in 0..999999; each value issued is the counter plus
\* one modulo 1000000, which is the value issued before it plus one modulo
\* 1000000, as 6 zero-padded digits; no value is issued twice within a run
\* shorter than a cycle.
StanCyclic ==
    [][/\ stan \in 0..MaxStan /\ stan' \in 0..MaxStan
       /\ issued' = issued => stan' = stan
       /\ issued' # issued =>
            /\ stan' = (stan + 1) % (MaxStan + 1)
            /\ issued' = Append(issued, SixDigits(stan'))
            /\ issued # <<>> =>
                 ToNum(issued'[Len(issued')]) =
                     (ToNum(issued[Len(issued)]) + 1) % (MaxStan + 1)
       /\ \A i, j \in 1..Len(issued') : i # j => issued'[i] # issued'[j]]_vars

\* C8 witness: 999999 was issued and the next value issued was 000000.
StanWrapWitness ==
    \E i \in 1..Len(issued) :
        /\ i < Len(issued)
        /\ issued[i] = <<9, 9, 9, 9, 9, 9>>
        /\ issued[i + 1] = <<0, 0, 0, 0, 0, 0>>

\* C9: Send keeps a non-empty field 11 as the key it builds, registers and
\* writes, without touching the counter; an empty field 11 becomes the
\* generator's next value and the counter advances by one allocation.
StanSetOnlyWhenEmpty ==
    [][/\ \A c \in Callers :
            (sendPc[c] = "prep" /\ sendPc'[c] # "prep") =>
                IF given[c] # Empty
                  THEN /\ msg'[c] = given[c]
                       /\ reqs'[c] = [rawMessage |-> given[c], requestID |-> given[c]]
                       /\ stan' = stan
                       /\ issued' = issued
                  ELSE /\ stan' = (stan + 1) % (MaxStan + 1)
                       /\ msg'[c] = SixDigits(stan')
                       /\ reqs'[c] = [rawMessage |-> msg'[c], requestID |-> msg'[c]]
                       /\ issued' = Append(issued, msg'[c])
       /\ (wrPc = "insert" /\ wrPc' = "write") =>
            (msg[wrReq] \in DOMAIN respMap' /\ respMap'[msg[wrReq]] = wrReq)
       /\ written' # written =>
            written' = written \cup {[req |-> wrReq, raw |-> msg[wrReq]]}]_vars

\* C9 witness: a request with a caller-supplied key and a request with a
\* generated key have both been written.
StanSetWitness ==
    \E c, d \in Callers :
        /\ given[c] # Empty /\ given[d] = Empty
        /\ \E w \in written : w.req = c
        /\ \E w \in written : w.req = d

\* C10: a Close call made after a Close call has returned does not change the
\* closing flag or the closed transport, returns, and returns the transport's
\* already-closed error.
CloseIdempotent ==
    [][(closeRes # "none" /\ closePc' # closePc) =>
          /\ closing /\ closing'
          /\ connClosed /\ connClosed'
          /\ crashed' = crashed
          /\ closePc = "conn" => (closePc' = "idle" /\ closeRes' = "ErrNetClosed")]_vars

\* C10 witness: a second Close call has returned.
SecondCloseWitness == closeRes = "ErrNetClosed" /\ closePc = "idle"

\* C11: when readLoop looks up a decoded message whose key has no entry, the
\* table and every Send call stay as they are (no reply, no error, no
\* handoff), and readLoop goes on to read the next frame.
UnmatchedMessageIgnored ==
    [][(rdPc = "lookup" /\ rdPc' # "lookup"
            /\ requestID(rdMsg.key) \notin DOMAIN respMap) =>
          /\ respMap' = respMap
          /\ sendPc' = sendPc /\ resp' = resp /\ err' = err
          /\ handoffs' = handoffs
          /\ rdPc' = "read"
          /\ ~crashed']_vars

\* C11 witness: readLoop has decoded a message that matches no entry while a
\* Send call with another key is pending.
UnmatchedMessageWitness ==
    /\ rdPc = "lookup"
    /\ requestID(rdMsg.key) \notin DOMAIN respMap
    /\ \E c \in Callers : sendPc[c] = "wait" /\ c \in registered

\* C12: every request whose bytes the transport has accepted, or that
\* writeLoop is about to write or has failed to write, was registered in the
\* table before.
RegisteredBeforeWrite ==
    /\ \A w \in written : w.req \in registered
    /\ wrPc \in {"write", "sendErr"} => wrReq \in registered

\* C12 witness: a request was written and its reply was looked up and
\* delivered.
RegisteredBeforeWriteWitness ==
    \E w \in written : w.req \in registered /\ HasReply(w.req)

\* C13: once a Send call has returned the write error of its request, the
\* table holds no entry for that request, and no other caller holds a write
\* error it did not cause.
FailedWriteEntryRemoved ==
    \A c \in Callers :
        err[c] = "WriteErr" =>
            /\ "err" \in handoffs[c]
            /\ \A k \in DOMAIN respMap : respMap[k] # c

\* C14: after a failed write, writeLoop eventually receives from the request
\* channel again.
FailedWriteKeepsConsuming == (wrPc = "sendErr") ~> (wrPc = "recv")

\* C15: whenever readLoop has found an entry and offers the message on its
\* reply channel, the Send call that owns the channel is receiving.
ReaderDeliveryHasReceiver ==
    rdPc = "deliver" => (rdCh \in Callers /\ sendPc[rdCh] = "wait")

\* C16: once readLoop has terminated, every Send call that starts is rejected
\* with ErrConnectionClosed, and every request still outstanding receives an
\* error.
ReaderExitShutsDown ==
    /\ [][\A c \in Callers :
             (rdPc = "done" /\ sendPc[c] = "idle" /\ sendPc'[c] # "idle") =>
                 (sendPc'[c] = "done" /\ err'[c] = "ErrConnectionClosed")]_vars
    /\ \A c \in Callers :
          (rdPc = "done" /\ sendPc[c] = "wait")
              ~> \/ Returned(c) /\ (err[c] # "nil" \/ HasReply(c))
                 \/ crashed

\* C17: writeLoop's insert and readLoop's lookup or delete are never in
\* progress on the table at the same time.
TableOpsExclusive ==
    ~(wrPc = "insert" /\ (rdPc = "lookup" \/ rdPc = "delete"))

\* C18: the removal readLoop performs after delivering a reply removes only
\* an entry of the request that received the reply.
DeleteRemovesOwnEntry ==
    [][(rdPc = "delete" /\ rdPc' # "delete") =>
          \A k \in DOMAIN respMap :
              k \notin DOMAIN respMap' => respMap[k] = rdCh]_vars

\* C19: after Close has set the closing flag, writeLoop and readLoop both
\* eventually terminate (a runtime abort ends them too).
LoopsExitAfterClose == closing ~> ((wrPc = "done" /\ rdPc = "done") \/ crashed)

\* C20: once the closing flag is set, writeLoop accepts no new request,
\* registers no new entry and attempts no write.
NothingAcceptedAfterClosing ==
    [][closing =>
          /\ published' = published
          /\ registered' = registered
          /\ ~(wrPc = "write" /\ wrPc' # "write")]_vars

====
